---- MODULE Spec2Model ----
(***************************************************************************)
(* A model of the Program runtime of src/tea.go: Run (start-up, event      *)
(* loop, tear-down), Send / Quit / Kill, the command dispatcher            *)
(* (handleCommands), the sequence task and the init-command task.          *)
(*                                                                         *)
(* Channels p.msgs and cmds are unbuffered: a send and the matching        *)
(* receive are one atomic rendezvous step, enabled only while the receiver *)
(* sits in its select.  A select with several ready cases may take any of  *)
(* them.  When both sides of a rendezvous are selects that also wait on    *)
(* p.ctx.Done() (Send against the event loop, the init-command task        *)
(* against the dispatcher), closing Done claims every parked select, and a *)
(* select entered later finds Done ready and nobody parked on the other    *)
(* channel: such a rendezvous never happens once p.ctx is cancelled.  A    *)
(* plain send (cmds <- cmd in the event loop) stays parked and can still   *)
(* be taken by a select that has not chosen yet.                           *)
(***************************************************************************)
EXTENDS Naturals, Sequences, FiniteSets, Bags, TLC

\* ------------------------------------------------------------------ bounds

\* Longest script of plain "inc" / Quit calls the external caller is given
\* (besides the scripts that exercise commands, FeatureScripts below).
MaxScript == 2

\* Most signals (SIGINT / SIGTERM) the process receives during one run.
MaxSignals == 1

\* ------------------------------------------------- messages and commands

\* Msg values.  "nilmsg" is the nil Msg; "quit" is quitMsg{}; "mBatch" is a
\* batchMsg and "mSeq", "mSeqNil" are sequenceMsg values; the rest are
\* application messages.
NilMsg == "nilmsg"
QuitMsg == "quit"

\* Cmd values.  "nil" is the nil Cmd.
NilCmd == "nil"

\* The message a command returns when it is invoked (Cmd is func() Msg).
Result(c) ==
  CASE c = "cA" -> "ra"
    [] c = "cB" -> "rb"
    [] c = "cNone" -> NilMsg
    [] c = "cBatch" -> "mBatch"
    [] c = "cSeq" -> "mSeq"
    [] c = "cSeqNil" -> "mSeqNil"

\* The commands carried by a batchMsg / sequenceMsg ([]Cmd).
Elems(m) ==
  CASE m = "mBatch" -> <<"cA", NilCmd, "cB">>
    [] m = "mSeq" -> <<"cA", "cB">>
    [] m = "mSeqNil" -> <<"cA", NilCmd, "cB">>
    [] OTHER -> <<>>

\* The type switch of the event loop on the received message.
Kind(m) ==
  CASE m = QuitMsg -> "quit"
    [] m = "mBatch" -> "batch"
    [] m \in {"mSeq", "mSeqNil"} -> "sequence"
    [] m = "mClear" -> "clearScreen"
    [] m = "mEnterAlt" -> "enterAltScreen"
    [] m = "mExitAlt" -> "exitAltScreen"
    [] m = "mMouseCell" -> "enableMouseCellMotion"
    [] m = "mMouseAll" -> "enableMouseAllMotion"
    [] m = "mDisableMouse" -> "disableMouse"
    [] m = "mShowCursor" -> "showCursor"
    [] m = "mHideCursor" -> "hideCursor"
    [] m = "mExec" -> "exec"
    [] m = "mPrint" -> "printLine"
    [] m = "mRepaint" -> "repaint"
    [] OTHER -> "other"

\* The kinds of message the runtime itself acts on.
ControlKinds ==
  {"quit", "batch", "sequence", "clearScreen", "enterAltScreen",
   "exitAltScreen", "enableMouseCellMotion", "enableMouseAllMotion",
   "disableMouse", "showCursor", "hideCursor", "exec", "printLine", "repaint"}

\* The application (a counting Model): Update increments the count on "inc"
\* and ignores every other message; it answers "bat", "seq" and "seqn" with
\* a command and everything else with the nil command.
\* On "pan" Update panics; on "vpan" it returns a Model whose View panics.
BadModel == 99

UpdateModel(mdl, m) ==
  CASE m = "inc" -> mdl + 1
    [] m = "vpan" -> BadModel
    [] OTHER -> mdl

UpdatePanics(m) == m = "pan"

ViewPanics(mdl) == mdl = BadModel

UpdateCmd(m) ==
  CASE m = "bat" -> "cBatch"
    [] m = "nilc" -> "cNone"
    [] m = "seq" -> "cSeq"
    [] m = "seqn" -> "cSeqNil"
    [] OTHER -> NilCmd

\* Init() of the application returns no command or one command.
InitCmds == {NilCmd, "cA"}

InitialModel == 0

\* Errors Run can return.
NoErr == "nil"
ErrProgramKilled == "ErrProgramKilled"
ErrInitTerminal == "errInitTerminal"
ErrOpenTTY == "errOpenTTY"
ErrCancelReader == "errCancelReader"
ErrGetSize == "errGetSize"

\* The Model value of a Run that returned through the recover() path (the
\* zero value of the unnamed result).
NilModel == <<>>

\* A non-nil Model interface value holding the application state m.
ModelValue(m) == <<m>>

\* ------------------------------------------------- terminal and renderer

\* The terminal modes the program toggles: raw mode, alt screen, the two
\* mouse reporting modes and the cursor.  Before Run the terminal is cooked,
\* on the main screen, without mouse reporting and with its cursor shown.
TermPristine ==
  [raw |-> FALSE, alt |-> FALSE, mouseCell |-> FALSE, mouseAll |-> FALSE,
   cursor |-> TRUE]

\* p.initTerminal(): the terminal enters raw (managed) mode and the cursor is
\* hidden.
InitTerminal(t) == [t EXCEPT !.raw = TRUE, !.cursor = FALSE]

\* p.restoreTerminalState(): the terminal goes back to its pre-program state.
RestoreTerminalState(t) ==
  [t EXCEPT !.raw = FALSE, !.alt = FALSE, !.mouseCell = FALSE,
            !.mouseAll = FALSE, !.cursor = TRUE]

\* Start-up options in which the two mouse modes are honoured independently.
StartupModesBoth(o, t) ==
  [t EXCEPT !.alt = o.altScreen \/ t.alt,
            !.mouseCell = o.mouseCell \/ t.mouseCell,
            !.mouseAll = o.mouseAll \/ t.mouseAll]

\* Run honours the start-up options: alt screen, then cell motion, or else
\* all motion.
StartupModes(o, t) ==
  LET a == IF o.altScreen THEN [t EXCEPT !.alt = TRUE] ELSE t
  IN  IF o.mouseCell THEN [a EXCEPT !.mouseCell = TRUE]
      ELSE IF o.mouseAll THEN [a EXCEPT !.mouseAll = TRUE]
      ELSE a

\* Control messages whose renderer call is left out.
ControlEffectNone(k, t) == t

\* The renderer call the event loop makes for a control message of kind k.
ControlEffect(k, t) ==
  CASE k = "enterAltScreen" -> [t EXCEPT !.alt = TRUE]
    [] k = "exitAltScreen" -> [t EXCEPT !.alt = FALSE]
    [] k = "enableMouseCellMotion" -> [t EXCEPT !.mouseCell = TRUE]
    [] k = "enableMouseAllMotion" -> [t EXCEPT !.mouseAll = TRUE]
    [] k = "disableMouse" -> [t EXCEPT !.mouseCell = FALSE, !.mouseAll = FALSE]
    [] k = "showCursor" -> [t EXCEPT !.cursor = TRUE]
    [] k = "hideCursor" -> [t EXCEPT !.cursor = FALSE]
    [] OTHER -> t

\* ------------------------------------------------------------ the caller

\* What the external caller passes to Send (Quit() is Send(quitMsg{})).
Alphabet == {"inc", QuitMsg}

RECURSIVE SeqsUpTo(_, _)
SeqsUpTo(S, n) ==
  IF n = 0 THEN {<<>>}
  ELSE LET shorter == SeqsUpTo(S, n - 1)
       IN shorter \cup {Append(s, x) : s \in shorter, x \in S}

\* The counting example of the specification: inc, inc, noop, inc, Quit.
CounterScript == <<"inc", "inc", "noop", "inc", QuitMsg>>

\* Scripts whose messages make Update return a batch or a sequence command.
FeatureScripts == {<<"bat", "inc">>, <<"seq", "inc">>, <<"seqn">>}

Scripts ==
  (SeqsUpTo(Alphabet, MaxScript) \ {<<>>}) \cup FeatureScripts \cup {CounterScript}

VARIABLES
  opts,       \* start-up configuration: [inputNil, catchPanics, initCmd]
  script,     \* the messages the external caller sends, in order
  pc,         \* position of the Run task
  ctx,        \* TRUE once p.ctx is cancelled (p.ctx.Done() is closed)
  model,      \* the Model held by Run / eventLoop
  cur,        \* the message the event loop is handling
  out,        \* the commands the event loop still has to put on cmds
  loopErr,    \* the error eventLoop returned
  exitCtx,    \* whether p.ctx was cancelled when eventLoop returned
  exitBy,     \* the case through which eventLoop returned: "ctx", "quit"
  killed,     \* Run's local killed
  retModel,   \* the Model Run returned
  retErr,     \* the error Run returned
  rdr,        \* renderer: [started, down, finalViews, finalView]
  disp,       \* dispatcher task: [st, c]
  initT,      \* init-command task: "none", "waiting", "closed"
  sends,      \* bag of messages of pending `go p.Send(msg)` tasks
  seqT,       \* sequence tasks, in spawn order
  ext,        \* the external caller: [i, st, phase]
  extLog,     \* outcome of every Send the caller finished
  killAt,     \* the phase of Run in which Kill was called, or "never"
  crashed,    \* "no", or why the process ended: "nilCmd", "panic"
  extUpd,     \* script indices of the caller's messages passed to Update
  thr,        \* Update calls: receiver (in) and result (out) of the latest
              \* call, result of the call before it (prev), their number (n)
  dispLog,    \* the commands the dispatcher has invoked, in order
  views,      \* number of p.renderer.write(model.View()) calls
  term,       \* terminal modes: [raw, alt, mouseCell, mouseAll, cursor]
  flags,      \* p.ignoreSignals and p.altScreenWasActive
  sig,        \* signal watcher: [st, pending, n] and, of the signal in
              \* the channel and of the one taken from it, whether
              \* p.ignoreSignals was set when it arrived (pendIgn, heldIgn);
              \* lost: a signal that arrived with the flag clear was dropped
  rsz,        \* resize watcher: "off", "listen", "closed"
  rel,        \* the caller of ReleaseTerminal / RestoreTerminal
  sd,         \* p.shutdown calls: their number (n) and the handlers that
              \* had not closed their channel when one ran (open)
  cnt,        \* counters: Init calls, close(ch) of every handler
  steps,      \* what the loop has done for the message it is handling
  szT,        \* the initial-size task of handleResize: "off", "errsend",
              \* "msgsend", "done"
  prt         \* a caller of Println / Printf: "idle", "sending", "returned"

vars == <<opts, script, pc, ctx, model, cur, out, loopErr, exitCtx, exitBy,
          killed, retModel, retErr, rdr, disp, initT, sends, seqT, ext, extLog,
          killAt, crashed, extUpd, thr, dispLog, views, term, flags, sig,
          rsz, rel, sd, cnt, steps, szT, prt>>

\* The process is alive: no unrecovered panic has ended it.
Alive == crashed = "no"

killCalled == killAt # "never"

\* Where Run is, as an external caller sees it.
Phase ==
  CASE pc = "idle" -> "unstarted"
    [] pc \in {"starting", "setup", "subscribe"} -> "starting"
    [] pc = "done" -> "returned"
    [] OTHER -> "running"

\* The loop is handling no message.
NoCur == [src |-> "none", msg |-> NilMsg, idx |-> 0]

\* Start-up configurations without a signal handler, without alt screen
\* or mouse options, and with an output that is not a terminal.
CoreOpts ==
  [inputNil : BOOLEAN, catchPanics : BOOLEAN, initCmd : InitCmds,
   signals : {FALSE}, altScreen : {FALSE}, mouseCell : {FALSE},
   mouseAll : {FALSE}, outTTY : {FALSE}]

\* The Program as NewProgram leaves it, and the tasks not yet started.
InitState ==
  /\ pc = "idle"
  /\ ctx = FALSE
  /\ model = InitialModel
  /\ cur = NoCur
  /\ out = <<>>
  /\ loopErr = NoErr
  /\ exitCtx = FALSE
  /\ exitBy = "none"
  /\ killed = FALSE
  /\ retModel = NilModel
  /\ retErr = NoErr
  /\ rdr = [started |-> FALSE, down |-> "no", finalViews |-> 0, finalView |-> 0]
  /\ disp = [st |-> "off", c |-> NilCmd]
  /\ initT = "none"
  /\ sends = EmptyBag
  /\ seqT = <<>>
  /\ ext = [i |-> 1, st |-> "idle", phase |-> "none"]
  /\ extLog = <<>>
  /\ killAt = "never"
  /\ crashed = "no"
  /\ extUpd = <<>>
  /\ thr = [in |-> InitialModel, out |-> InitialModel, prev |-> InitialModel,
            n |-> 0]
  /\ dispLog = <<>>
  /\ views = 0
  /\ term = TermPristine
  /\ flags = [ignoreSignals |-> FALSE, altWas |-> FALSE]
  /\ sig = [st |-> "off", pending |-> FALSE, pendIgn |-> FALSE,
            heldIgn |-> FALSE, n |-> 0, lost |-> FALSE]
  /\ rsz = "off"
  /\ rel = [st |-> "idle", before |-> TermPristine, after |-> TermPristine,
            repaints |-> 0]
  /\ sd = [n |-> 0, open |-> {}]
  /\ cnt = [init |-> 0, sig |-> 0, rsz |-> 0, disp |-> 0, initT |-> 0]
  /\ steps = <<>>
  /\ szT = "off"
  /\ prt = "idle"

Init ==
  /\ opts \in CoreOpts
  /\ script \in Scripts
  /\ InitState

\* ------------------------------------------------------------ Run: start

\* Mutant of RunReturn: the deferred p.cancel() is missing.
RunReturnNoCancel(m, e) ==
  /\ retModel' = m
  /\ retErr' = e
  /\ ctx' = ctx
  /\ pc' = "done"

\* Every return of Run: the results, and the deferred p.cancel().
RunReturn(m, e) ==
  /\ retModel' = m
  /\ retErr' = e
  /\ ctx' = TRUE
  /\ pc' = "done"

\* Run is called: handlers, cmds and p.errs are made, the input is resolved
\* (openInputTTY may fail) and the panic handler is registered.
RunStart ==
  /\ Alive
  /\ pc = "idle"
  /\ \/ /\ pc' = "starting"
        /\ sig' = IF opts.signals THEN [sig EXCEPT !.st = "select"] ELSE sig
        /\ UNCHANGED <<retModel, retErr, ctx>>
     \/ /\ RunReturn(ModelValue(InitialModel), ErrOpenTTY)
        /\ UNCHANGED sig
  /\ UNCHANGED <<opts, script, model, cur, out, loopErr, exitCtx, exitBy,
                 killed, rdr, disp, initT, sends, seqT, ext, extLog, killAt,
                 crashed, extUpd, thr, dispLog, views, term, flags, rsz, rel,
                 sd, cnt, steps, szT, prt>>

\* The renderer is made and p.initTerminal() runs; on an error Run returns
\* the initial model and the error.
RunInitTerminal ==
  /\ Alive
  /\ pc = "starting"
  /\ \/ /\ pc' = "setup"
        /\ term' = InitTerminal(term)
        /\ UNCHANGED <<retModel, retErr, ctx>>
     \/ /\ RunReturn(ModelValue(InitialModel), ErrInitTerminal)
        /\ UNCHANGED term
  /\ UNCHANGED <<opts, script, model, cur, out, loopErr, exitCtx, exitBy,
                 killed, rdr, disp, initT, sends, seqT, ext, extLog, killAt,
                 crashed, extUpd, thr, dispLog, views, flags, sig, rsz, rel,
                 sd, cnt, steps, szT, prt>>

\* The start-up options are honoured; model.Init(); a non-nil initial
\* command gets a task of its own that offers it on cmds; the renderer is
\* started and the first view written.
RunSetup ==
  /\ Alive
  /\ pc = "setup"
  /\ term' = StartupModes(opts, term)
  /\ cnt' = [cnt EXCEPT !.init = @ + 1]
  /\ model' = InitialModel
  /\ initT' = IF opts.initCmd # NilCmd THEN "waiting" ELSE "none"
  /\ rdr' = [rdr EXCEPT !.started = TRUE]
  /\ views' = views + 1
  /\ pc' = "subscribe"
  /\ UNCHANGED <<opts, script, ctx, cur, out, loopErr, exitCtx, exitBy, killed,
                 retModel, retErr, disp, sends, seqT, ext, extLog, killAt,
                 crashed, extUpd, thr, dispLog, flags, sig, rsz, rel, sd,
                 steps, szT, prt>>

\* p.initCancelReader() when there is an input (it may fail, and Run then
\* returns at once), then handleResize and handleCommands are started.
RunSubscribe ==
  /\ Alive
  /\ pc = "subscribe"
  /\ \/ /\ pc' = "loop"
        /\ disp' = [st |-> "select", c |-> NilCmd]
        /\ rsz' = IF opts.outTTY THEN "listen" ELSE "closed"
        /\ cnt' = IF opts.outTTY THEN cnt ELSE [cnt EXCEPT !.rsz = @ + 1]
        /\ UNCHANGED <<retModel, retErr, ctx>>
     \/ /\ ~opts.inputNil
        /\ RunReturn(ModelValue(model), ErrCancelReader)
        /\ UNCHANGED <<disp, rsz, cnt>>
  /\ UNCHANGED <<opts, script, model, cur, out, loopErr, exitCtx, exitBy,
                 killed, rdr, initT, sends, seqT, ext, extLog, killAt, crashed,
                 extUpd, thr, dispLog, views, term, flags, sig, rel, sd, steps,
                 szT, prt>>

\* ------------------------------------------------------- the event loop

\* A sequence task just spawned for the commands l.  inv counts the commands
\* it has invoked, got lists the results the event loop received from it.
NewSeqTask(l) ==
  [list |-> l, inv |-> 0, got |-> <<>>,
   st |-> IF Len(l) = 0 THEN "done" ELSE "run"]

\* The sequence task after the Send of its latest result has returned.
SeqAfterSend(t, delivered) ==
  [t EXCEPT !.got = IF delivered THEN Append(@, Result(t.list[t.inv])) ELSE @,
            !.st = IF t.inv = Len(t.list) THEN "done" ELSE "run"]

\* case msg := <-p.msgs and the type switch on it, for the message m that
\* the sender src handed over; tasks is seqT after the sender's own step.
\*   quitMsg: return model, nil.
\*   batchMsg: every command goes on cmds, then `continue`.
\*   sequenceMsg: a task is spawned for its commands; then as any message.
\*   execMsg: p.exec runs on the loop task (LoopExec); then as any message.
\*   the other control messages: one renderer call; then as any message.
\*   anything else: on to Update.
Receive(src, i, m, tasks) ==
     CASE Kind(m) = "quit" ->
            /\ pc' = "exited"
            /\ loopErr' = NoErr
            /\ exitCtx' = ctx
            /\ exitBy' = "quit"
            /\ seqT' = tasks
            /\ UNCHANGED <<cur, out, term, steps>>
       [] Kind(m) = "batch" ->
            /\ pc' = IF Len(Elems(m)) = 0 THEN "loop" ELSE "batch"
            /\ out' = Elems(m)
            /\ seqT' = tasks
            /\ UNCHANGED <<cur, loopErr, exitCtx, exitBy, term, steps>>
       [] Kind(m) = "sequence" ->
            /\ pc' = "update"
            /\ cur' = [src |-> src, msg |-> m, idx |-> i]
            /\ seqT' = Append(tasks, NewSeqTask(Elems(m)))
            /\ steps' = <<"effect">>
            /\ UNCHANGED <<out, loopErr, exitCtx, exitBy, term>>
       [] Kind(m) = "exec" ->
            /\ pc' = "exec"
            /\ cur' = [src |-> src, msg |-> m, idx |-> i]
            /\ seqT' = tasks
            /\ UNCHANGED <<out, loopErr, exitCtx, exitBy, term, steps>>
       [] OTHER ->
            /\ pc' = "update"
            /\ cur' = [src |-> src, msg |-> m, idx |-> i]
            /\ seqT' = tasks
            /\ term' = ControlEffect(Kind(m), term)
            /\ steps' = IF Kind(m) \in ControlKinds THEN <<"effect">> ELSE <<>>
            /\ UNCHANGED <<out, loopErr, exitCtx, exitBy>>

\* case <-p.ctx.Done(): return model, nil.
LoopCtxDone ==
  /\ Alive
  /\ pc = "loop"
  /\ ctx
  /\ pc' = "exited"
  /\ loopErr' = NoErr
  /\ exitCtx' = ctx
  /\ exitBy' = "ctx"
  /\ UNCHANGED <<opts, script, ctx, model, cur, out, killed, retModel, retErr,
                 rdr, disp, initT, sends, seqT, ext, extLog, killAt, crashed,
                 extUpd, thr, dispLog, views, term, flags, sig, rsz, rel, sd,
                 cnt, steps, szT, prt>>

\* A loop whose select can take a waiting Send after the scope was cancelled.
LoopRecvExtAfterCancel ==
  /\ Alive
  /\ pc = "loop"
  /\ ext.st = "sending"
  /\ Receive("ext", ext.i, script[ext.i], seqT)
  /\ ext' = [i |-> ext.i + 1, st |-> "idle", phase |-> "none"]
  /\ extLog' = Append(extLog, [msg |-> script[ext.i], phase |-> ext.phase,
                               res |-> "delivered"])
  /\ UNCHANGED <<opts, script, ctx, model, killed, retModel, retErr, rdr, disp,
                 initT, sends, killAt, crashed, extUpd, thr, dispLog, views,
                 flags, sig, rsz, rel, sd, cnt, szT, prt>>

\* The loop receives the message the external caller is sending.
LoopRecvExt ==
  /\ Alive
  /\ pc = "loop"
  /\ ~ctx
  /\ ext.st = "sending"
  /\ Receive("ext", ext.i, script[ext.i], seqT)
  /\ ext' = [i |-> ext.i + 1, st |-> "idle", phase |-> "none"]
  /\ extLog' = Append(extLog, [msg |-> script[ext.i], phase |-> ext.phase,
                               res |-> "delivered"])
  /\ UNCHANGED <<opts, script, ctx, model, killed, retModel, retErr, rdr, disp,
                 initT, sends, killAt, crashed, extUpd, thr, dispLog, views,
                 flags, sig, rsz, rel, sd, cnt, szT, prt>>

\* The loop receives the result of a dispatched command from its Send task.
LoopRecvCmd ==
  /\ Alive
  /\ pc = "loop"
  /\ ~ctx
  /\ \E m \in BagToSet(sends) :
       /\ Receive("cmd", 0, m, seqT)
       /\ sends' = sends (-) SetToBag({m})
  /\ UNCHANGED <<opts, script, ctx, model, killed, retModel, retErr, rdr, disp,
                 initT, ext, extLog, killAt, crashed, extUpd, thr, dispLog,
                 views, flags, sig, rsz, rel, sd, cnt, szT, prt>>

\* The loop receives the result a sequence task is sending.
LoopRecvSeq ==
  /\ Alive
  /\ pc = "loop"
  /\ ~ctx
  /\ \E t \in DOMAIN seqT :
       /\ seqT[t].st = "send"
       /\ Receive("seq", 0, Result(seqT[t].list[seqT[t].inv]),
                  [seqT EXCEPT ![t] = SeqAfterSend(seqT[t], TRUE)])
  /\ UNCHANGED <<opts, script, ctx, model, killed, retModel, retErr, rdr, disp,
                 initT, sends, ext, extLog, killAt, crashed, extUpd, thr,
                 dispLog, views, flags, sig, rsz, rel, sd, cnt, szT, prt>>

\* The dispatcher after it took c from cmds: nil is skipped (`continue`);
\* otherwise `go p.Send(cmd())` evaluates cmd() in the dispatcher task itself
\* (the operands of a go statement are evaluated by the calling goroutine).
DispAccept(c) ==
  IF c = NilCmd THEN [st |-> "select", c |-> NilCmd]
  ELSE [st |-> "running", c |-> c]

\* Mutant of UpdateReceiver: Update is invoked on p.initialModel each time.
UpdateReceiverInitial == InitialModel

\* The Model on which the loop invokes Update: its local variable model.
UpdateReceiver == model

\* model, cmd = model.Update(msg).
LoopUpdate ==
  /\ Alive
  /\ pc = "update"
  /\ extUpd' = IF cur.src = "ext" THEN Append(extUpd, cur.idx) ELSE extUpd
  /\ steps' = Append(steps, "update")
  /\ IF UpdatePanics(cur.msg)
     THEN /\ pc' = "panic"
          /\ UNCHANGED <<model, out, thr>>
     ELSE /\ model' = UpdateModel(UpdateReceiver, cur.msg)
          /\ out' = <<UpdateCmd(cur.msg)>>
          /\ thr' = [in |-> UpdateReceiver,
                     out |-> UpdateModel(UpdateReceiver, cur.msg),
                     prev |-> thr.out, n |-> thr.n + 1]
          /\ pc' = "sendcmd"
  /\ UNCHANGED <<opts, script, ctx, cur, loopErr, exitCtx, exitBy, killed,
                 retModel, retErr, rdr, disp, initT, sends, seqT, ext, extLog,
                 killAt, crashed, dispLog, views, term, flags, sig, rsz, rel,
                 sd, cnt, szT, prt>>

\* A loop that reads its next message right after cmds <- cmd, without the
\* render.
LoopSendCmdThenRead ==
  /\ Alive
  /\ pc = "sendcmd"
  /\ disp.st = "select"
  /\ disp' = DispAccept(Head(out))
  /\ out' = <<>>
  /\ steps' = Append(steps, "cmd")
  /\ pc' = "loop"
  /\ UNCHANGED <<opts, script, ctx, model, cur, loopErr, exitCtx, exitBy,
                 killed, retModel, retErr, rdr, initT, sends, seqT, ext,
                 extLog, killAt, crashed, extUpd, thr, dispLog, views, term,
                 flags, sig, rsz, rel, sd, cnt, szT, prt>>

\* cmds <- cmd: a rendezvous with the dispatcher's select.
LoopSendCmd ==
  /\ Alive
  /\ pc = "sendcmd"
  /\ disp.st = "select"
  /\ disp' = DispAccept(Head(out))
  /\ out' = <<>>
  /\ steps' = Append(steps, "cmd")
  /\ pc' = "view"
  /\ UNCHANGED <<opts, script, ctx, model, cur, loopErr, exitCtx, exitBy,
                 killed, retModel, retErr, rdr, initT, sends, seqT, ext,
                 extLog, killAt, crashed, extUpd, thr, dispLog, views, term,
                 flags, sig, rsz, rel, sd, cnt, szT, prt>>

\* for _, cmd := range msg { cmds <- cmd }; continue.
LoopBatchSend ==
  /\ Alive
  /\ pc = "batch"
  /\ disp.st = "select"
  /\ disp' = DispAccept(Head(out))
  /\ out' = Tail(out)
  /\ pc' = IF Len(out) = 1 THEN "loop" ELSE "batch"
  /\ UNCHANGED <<opts, script, ctx, model, cur, loopErr, exitCtx, exitBy,
                 killed, retModel, retErr, rdr, initT, sends, seqT, ext,
                 extLog, killAt, crashed, extUpd, thr, dispLog, views, term,
                 flags, sig, rsz, rel, sd, cnt, steps, szT, prt>>

\* p.renderer.write(model.View()).
LoopView ==
  /\ Alive
  /\ pc = "view"
  /\ views' = views + 1
  /\ IF ViewPanics(model)
     THEN /\ pc' = "panic"
          /\ UNCHANGED <<cur, steps>>
     ELSE /\ pc' = "loop"
          /\ cur' = NoCur
          /\ steps' = <<>>
  /\ UNCHANGED <<opts, script, ctx, model, out, loopErr, exitCtx, exitBy,
                 killed, retModel, retErr, rdr, disp, initT, sends, seqT, ext,
                 extLog, killAt, crashed, extUpd, thr, dispLog, term, flags,
                 sig, rsz, rel, sd, cnt, szT, prt>>

\* RestoreTerminal after initTerminal and initCancelReader succeeded: the
\* terminal is managed again, and the alt screen is entered again if it was
\* active at the release.
Reinit(t, altWas) ==
  IF altWas THEN [InitTerminal(t) EXCEPT !.alt = TRUE] ELSE InitTerminal(t)

\* case execMsg: p.exec(msg.cmd, msg.fn) on the loop task: the terminal is
\* handed over, the external process runs to its end, the terminal is
\* managed again, and the completion message is sent by a new task.
LoopExec ==
  /\ Alive
  /\ pc = "exec"
  /\ pc' = "update"
  /\ term' = Reinit(RestoreTerminalState(term), term.alt)
  /\ sends' = sends (+) SetToBag({"execDone"})
  /\ steps' = <<"effect">>
  /\ UNCHANGED <<opts, script, ctx, model, cur, out, loopErr, exitCtx, exitBy,
                 killed, retModel, retErr, rdr, disp, initT, seqT, ext, extLog,
                 killAt, crashed, extUpd, thr, dispLog, views, flags, sig, rsz,
                 rel, sd, cnt, szT, prt>>

\* -------------------------------------------------------- the dispatcher

\* handleCommands: case <-p.ctx.Done(): return (and close(ch)).
DispCtxDone ==
  /\ Alive
  /\ disp.st = "select"
  /\ ctx
  /\ disp' = [st |-> "closed", c |-> NilCmd]
  /\ cnt' = [cnt EXCEPT !.disp = @ + 1]
  /\ UNCHANGED <<opts, script, pc, ctx, model, cur, out, loopErr, exitCtx,
                 exitBy, killed, retModel, retErr, rdr, initT, sends, seqT,
                 ext, extLog, killAt, crashed, extUpd, thr, dispLog, views,
                 term, flags, sig, rsz, rel, sd, steps, szT, prt>>

\* cmd() returns in the dispatcher task; a new task is started for
\* p.Send(msg) and the dispatcher goes back to its select.
DispInvoke ==
  /\ Alive
  /\ disp.st = "running"
  /\ dispLog' = Append(dispLog, disp.c)
  /\ sends' = sends (+) SetToBag({Result(disp.c)})
  /\ disp' = [st |-> "select", c |-> NilCmd]
  /\ UNCHANGED <<opts, script, pc, ctx, model, cur, out, loopErr, exitCtx,
                 exitBy, killed, retModel, retErr, rdr, initT, seqT, ext,
                 extLog, killAt, crashed, extUpd, thr, views, term, flags, sig,
                 rsz, rel, sd, cnt, steps, szT, prt>>

\* Mutant of SendDone: Send gives up at once (a `default:` case).
SendDoneAlways == TRUE

\* Send: case <-p.ctx.Done() is ready.
SendDone == ctx

\* Send of a command's result: case <-p.ctx.Done().
CmdSendAbort ==
  /\ Alive
  /\ SendDone
  /\ \E m \in BagToSet(sends) : sends' = sends (-) SetToBag({m})
  /\ UNCHANGED <<opts, script, pc, ctx, model, cur, out, loopErr, exitCtx,
                 exitBy, killed, retModel, retErr, rdr, disp, initT, seqT, ext,
                 extLog, killAt, crashed, extUpd, thr, dispLog, views, term,
                 flags, sig, rsz, rel, sd, cnt, steps, szT, prt>>

\* An init-command task whose send can still be taken after the scope was
\* cancelled.
InitTaskSendAfterCancel ==
  /\ Alive
  /\ initT = "waiting"
  /\ disp.st = "select"
  /\ disp' = DispAccept(opts.initCmd)
  /\ initT' = "closed"
  /\ cnt' = [cnt EXCEPT !.initT = @ + 1]
  /\ UNCHANGED <<opts, script, pc, ctx, model, cur, out, loopErr, exitCtx,
                 exitBy, killed, retModel, retErr, rdr, sends, seqT, ext,
                 extLog, killAt, crashed, extUpd, thr, dispLog, views, term,
                 flags, sig, rsz, rel, sd, steps, szT, prt>>

\* The init-command task: case cmds <- initCmd, then close(ch).
InitTaskSend ==
  /\ Alive
  /\ initT = "waiting"
  /\ disp.st = "select"
  /\ ~ctx
  /\ disp' = DispAccept(opts.initCmd)
  /\ initT' = "closed"
  /\ cnt' = [cnt EXCEPT !.initT = @ + 1]
  /\ UNCHANGED <<opts, script, pc, ctx, model, cur, out, loopErr, exitCtx,
                 exitBy, killed, retModel, retErr, rdr, sends, seqT, ext,
                 extLog, killAt, crashed, extUpd, thr, dispLog, views, term,
                 flags, sig, rsz, rel, sd, steps, szT, prt>>

\* The init-command task: case <-p.ctx.Done(), then close(ch).
InitTaskCancel ==
  /\ Alive
  /\ initT = "waiting"
  /\ ctx
  /\ initT' = "closed"
  /\ cnt' = [cnt EXCEPT !.initT = @ + 1]
  /\ UNCHANGED <<opts, script, pc, ctx, model, cur, out, loopErr, exitCtx,
                 exitBy, killed, retModel, retErr, rdr, disp, sends, seqT, ext,
                 extLog, killAt, crashed, extUpd, thr, dispLog, views, term,
                 flags, sig, rsz, rel, sd, steps, szT, prt>>

\* ------------------------------------------------------ signal watcher

\* The OS delivers SIGINT or SIGTERM to the process while signal.Notify is
\* in force: it is put in the watcher's buffered channel sig.
SigArrive ==
  /\ Alive
  /\ sig.st \in {"select", "check", "send"}
  /\ ~sig.pending
  /\ sig.n < MaxSignals
  /\ sig' = [sig EXCEPT !.n = @ + 1, !.pending = TRUE,
                        !.pendIgn = flags.ignoreSignals]
  /\ UNCHANGED <<opts, script, pc, ctx, model, cur, out, loopErr, exitCtx,
                 exitBy, killed, retModel, retErr, rdr, disp, initT, sends,
                 seqT, ext, extLog, killAt, crashed, extUpd, thr, dispLog,
                 views, term, flags, rsz, rel, sd, cnt, steps, szT, prt>>

\* handleSignals: case <-sig.
SigRecv ==
  /\ Alive
  /\ sig.st = "select"
  /\ sig.pending
  /\ sig' = [sig EXCEPT !.st = "check", !.pending = FALSE,
                        !.heldIgn = sig.pendIgn]
  /\ UNCHANGED <<opts, script, pc, ctx, model, cur, out, loopErr, exitCtx,
                 exitBy, killed, retModel, retErr, rdr, disp, initT, sends,
                 seqT, ext, extLog, killAt, crashed, extUpd, thr, dispLog,
                 views, term, flags, rsz, rel, sd, cnt, steps, szT, prt>>

\* handleSignals: if !p.ignoreSignals { p.msgs <- quitMsg{}; return }.
SigCheck ==
  /\ Alive
  /\ sig.st = "check"
  /\ sig' = IF flags.ignoreSignals
            THEN [sig EXCEPT !.st = "select", !.lost = @ \/ ~sig.heldIgn]
            ELSE [sig EXCEPT !.st = "send"]
  /\ UNCHANGED <<opts, script, pc, ctx, model, cur, out, loopErr, exitCtx,
                 exitBy, killed, retModel, retErr, rdr, disp, initT, sends,
                 seqT, ext, extLog, killAt, crashed, extUpd, thr, dispLog,
                 views, term, flags, rsz, rel, sd, cnt, steps, szT, prt>>

\* handleSignals: case <-p.ctx.Done(): return (signal.Stop, close(ch)).
SigCtxDone ==
  /\ Alive
  /\ sig.st = "select"
  /\ ctx
  /\ sig' = [sig EXCEPT !.st = "closed"]
  /\ cnt' = [cnt EXCEPT !.sig = @ + 1]
  /\ UNCHANGED <<opts, script, pc, ctx, model, cur, out, loopErr, exitCtx,
                 exitBy, killed, retModel, retErr, rdr, disp, initT, sends,
                 seqT, ext, extLog, killAt, crashed, extUpd, thr, dispLog,
                 views, term, flags, rsz, rel, sd, steps, szT, prt>>

\* The loop receives the quitMsg the signal watcher is sending with its plain
\* `p.msgs <- quitMsg{}`; the watcher returns (signal.Stop, close(ch)).
LoopRecvSig ==
  /\ Alive
  /\ pc = "loop"
  /\ sig.st = "send"
  /\ Receive("sig", 0, QuitMsg, seqT)
  /\ sig' = [sig EXCEPT !.st = "closed"]
  /\ cnt' = [cnt EXCEPT !.sig = @ + 1]
  /\ UNCHANGED <<opts, script, ctx, model, killed, retModel, retErr, rdr, disp,
                 initT, sends, ext, extLog, killAt, crashed, extUpd, thr,
                 dispLog, views, flags, rsz, rel, sd, szT, prt>>

\* ------------------------------------------------------ resize watcher

\* listenForResize: the scope is cancelled, the watcher closes its channel.
ResizeCtxDone ==
  /\ Alive
  /\ rsz = "listen"
  /\ ctx
  /\ rsz' = "closed"
  /\ cnt' = [cnt EXCEPT !.rsz = @ + 1]
  /\ UNCHANGED <<opts, script, pc, ctx, model, cur, out, loopErr, exitCtx,
                 exitBy, killed, retModel, retErr, rdr, disp, initT, sends,
                 seqT, ext, extLog, killAt, crashed, extUpd, thr, dispLog,
                 views, term, flags, sig, rel, sd, steps, szT, prt>>

\* The initial-size task of handleResize runs term.GetSize: on an error it
\* goes to the plain send p.errs <- err, otherwise to the select that sends
\* the WindowSizeMsg.
SizeGet ==
  /\ Alive
  /\ opts.outTTY
  /\ rsz # "off"
  /\ szT = "off"
  /\ szT' \in {"errsend", "msgsend"}
  /\ UNCHANGED <<opts, script, pc, ctx, model, cur, out, loopErr, exitCtx,
                 exitBy, killed, retModel, retErr, rdr, disp, initT, sends,
                 seqT, ext, extLog, killAt, crashed, extUpd, thr, dispLog,
                 views, term, flags, sig, rsz, rel, sd, cnt, steps, prt>>

\* case err := <-p.errs: return model, err.  The sender goes on to its
\* select.
LoopRecvErr ==
  /\ Alive
  /\ pc = "loop"
  /\ szT = "errsend"
  /\ szT' = "msgsend"
  /\ pc' = "exited"
  /\ loopErr' = ErrGetSize
  /\ exitCtx' = ctx
  /\ exitBy' = "err"
  /\ UNCHANGED <<opts, script, ctx, model, cur, out, killed, retModel, retErr,
                 rdr, disp, initT, sends, seqT, ext, extLog, killAt, crashed,
                 extUpd, thr, dispLog, views, term, flags, sig, rsz, rel, sd,
                 cnt, steps, prt>>

\* The loop receives the WindowSizeMsg of the initial-size task.
LoopRecvSize ==
  /\ Alive
  /\ pc = "loop"
  /\ ~ctx
  /\ szT = "msgsend"
  /\ szT' = "done"
  /\ Receive("size", 0, "wsz", seqT)
  /\ UNCHANGED <<opts, script, ctx, model, killed, retModel, retErr, rdr, disp,
                 initT, sends, ext, extLog, killAt, crashed, extUpd, thr,
                 dispLog, views, flags, sig, rsz, rel, sd, cnt, prt>>

\* The initial-size task: case <-p.ctx.Done().
SizeCtxDone ==
  /\ Alive
  /\ szT = "msgsend"
  /\ ctx
  /\ szT' = "done"
  /\ UNCHANGED <<opts, script, pc, ctx, model, cur, out, loopErr, exitCtx,
                 exitBy, killed, retModel, retErr, rdr, disp, initT, sends,
                 seqT, ext, extLog, killAt, crashed, extUpd, thr, dispLog,
                 views, term, flags, sig, rsz, rel, sd, cnt, steps, prt>>

\* ----------------------------------------------------- Println, Printf

\* A caller calls Println or Printf: the plain send p.msgs <- printLineMessage.
PrintlnCall ==
  /\ Alive
  /\ prt = "idle"
  /\ prt' = "sending"
  /\ UNCHANGED <<opts, script, pc, ctx, model, cur, out, loopErr, exitCtx,
                 exitBy, killed, retModel, retErr, rdr, disp, initT, sends,
                 seqT, ext, extLog, killAt, crashed, extUpd, thr, dispLog,
                 views, term, flags, sig, rsz, rel, sd, cnt, steps, szT>>

\* The loop receives the printLineMessage and the call returns.  The send
\* has no ctx.Done alternative: the loop's select can take it also after the
\* scope was cancelled.
LoopRecvPrint ==
  /\ Alive
  /\ pc = "loop"
  /\ prt = "sending"
  /\ prt' = "returned"
  /\ Receive("prt", 0, "mPrint", seqT)
  /\ UNCHANGED <<opts, script, ctx, model, killed, retModel, retErr, rdr, disp,
                 initT, sends, ext, extLog, killAt, crashed, extUpd, thr,
                 dispLog, views, flags, sig, rsz, rel, sd, cnt, szT>>

\* --------------------------------------- ReleaseTerminal, RestoreTerminal

\* A caller calls ReleaseTerminal on the running program: p.ignoreSignals =
\* true, then p.cancelReader.Cancel() (a panic in the caller's task when
\* there is no cancel reader) and p.waitForReadLoop().
ReleaseBegin ==
  /\ Alive
  /\ rel.st = "idle"
  /\ ext.st = "idle"
  /\ pc \in {"loop", "update", "sendcmd", "view", "batch", "exec"}
  /\ flags' = [flags EXCEPT !.ignoreSignals = TRUE]
  /\ IF opts.inputNil
     THEN /\ crashed' = "panic"
          /\ UNCHANGED rel
     ELSE /\ rel' = [rel EXCEPT !.st = "releasing", !.before = term]
          /\ UNCHANGED crashed
  /\ UNCHANGED <<opts, script, pc, ctx, model, cur, out, loopErr, exitCtx,
                 exitBy, killed, retModel, retErr, rdr, disp, initT, sends,
                 seqT, ext, extLog, killAt, extUpd, thr, dispLog, views, term,
                 sig, rsz, sd, cnt, steps, szT, prt>>

\* ReleaseTerminal: p.altScreenWasActive = p.renderer.altScreen(); return
\* p.restoreTerminalState().
ReleaseEnd ==
  /\ Alive
  /\ rel.st = "releasing"
  /\ flags' = [flags EXCEPT !.altWas = term.alt]
  /\ term' = RestoreTerminalState(term)
  /\ rel' = [rel EXCEPT !.st = "released"]
  /\ UNCHANGED <<opts, script, pc, ctx, model, cur, out, loopErr, exitCtx,
                 exitBy, killed, retModel, retErr, rdr, disp, initT, sends,
                 seqT, ext, extLog, killAt, crashed, extUpd, thr, dispLog,
                 views, sig, rsz, sd, cnt, steps, szT, prt>>

\* The caller calls RestoreTerminal: p.ignoreSignals = false.
RestoreBegin ==
  /\ Alive
  /\ rel.st = "released"
  /\ flags' = [flags EXCEPT !.ignoreSignals = FALSE]
  /\ rel' = [rel EXCEPT !.st = "restoring"]
  /\ UNCHANGED <<opts, script, pc, ctx, model, cur, out, loopErr, exitCtx,
                 exitBy, killed, retModel, retErr, rdr, disp, initT, sends,
                 seqT, ext, extLog, killAt, crashed, extUpd, thr, dispLog,
                 views, term, sig, rsz, sd, cnt, steps, szT, prt>>

\* RestoreTerminal: initTerminal and initCancelReader, either of which may
\* fail; then the alt screen is entered again, or else a task is started
\* for p.Send(repaintMsg{}).
RestoreEnd ==
  /\ Alive
  /\ rel.st = "restoring"
  /\ \/ /\ rel' = [rel EXCEPT !.st = "failed"]
        /\ UNCHANGED <<term, sends>>
     \/ /\ rel' = [rel EXCEPT !.st = "failed"]
        /\ term' = InitTerminal(term)
        /\ UNCHANGED sends
     \/ /\ term' = Reinit(term, flags.altWas)
        /\ sends' = IF flags.altWas THEN sends
                    ELSE sends (+) SetToBag({"mRepaint"})
        /\ rel' = [rel EXCEPT !.st = "restored",
                              !.after = Reinit(term, flags.altWas),
                              !.repaints = IF flags.altWas THEN 0 ELSE 1]
  /\ UNCHANGED <<opts, script, pc, ctx, model, cur, out, loopErr, exitCtx,
                 exitBy, killed, retModel, retErr, rdr, disp, initT, seqT, ext,
                 extLog, killAt, crashed, extUpd, thr, dispLog, views, flags,
                 sig, rsz, sd, cnt, steps, szT, prt>>

\* ----------------------------------------------------- the sequence task

\* Mutant of SeqAfterInvoke: the task passes over a command and calls the
\* one after it.
SeqAfterInvokeSkip(t) ==
  [t EXCEPT !.inv = IF @ + 2 <= Len(t.list) THEN @ + 2 ELSE @ + 1,
            !.st = "send"]

\* The sequence task t after it has invoked its next command.
SeqAfterInvoke(t) == [t EXCEPT !.inv = @ + 1, !.st = "send"]

\* p.Send(cmd()) in the sequence task: cmd() is called; a nil cmd is a nil
\* function call, a panic in a task with no recover, which ends the process.
SeqInvoke ==
  /\ Alive
  /\ \E t \in DOMAIN seqT :
       /\ seqT[t].st = "run"
       /\ LET c == seqT[t].list[seqT[t].inv + 1] IN
          \/ /\ c # NilCmd
             /\ seqT' = [seqT EXCEPT ![t] = SeqAfterInvoke(seqT[t])]
             /\ UNCHANGED crashed
          \/ /\ c = NilCmd
             /\ crashed' = "nilCmd"
             /\ UNCHANGED seqT
  /\ UNCHANGED <<opts, script, pc, ctx, model, cur, out, loopErr, exitCtx,
                 exitBy, killed, retModel, retErr, rdr, disp, initT, sends,
                 ext, extLog, killAt, extUpd, thr, dispLog, views, term, flags,
                 sig, rsz, rel, sd, cnt, steps, szT, prt>>

\* Send in the sequence task: case <-p.ctx.Done().
SeqSendAbort ==
  /\ Alive
  /\ SendDone
  /\ \E t \in DOMAIN seqT :
       /\ seqT[t].st = "send"
       /\ seqT' = [seqT EXCEPT ![t] = SeqAfterSend(seqT[t], FALSE)]
  /\ UNCHANGED <<opts, script, pc, ctx, model, cur, out, loopErr, exitCtx,
                 exitBy, killed, retModel, retErr, rdr, disp, initT, sends,
                 ext, extLog, killAt, crashed, extUpd, thr, dispLog, views,
                 term, flags, sig, rsz, rel, sd, cnt, steps, szT, prt>>

\* ------------------------------------------------- Send, Quit and Kill

\* The external caller calls Send (or Quit) with its next message and sits
\* in Send's select.  (The same caller calls ReleaseTerminal and
\* RestoreTerminal, one call after the other.)
ExtSend ==
  /\ Alive
  /\ ext.st = "idle"
  /\ rel.st \in {"idle", "restored", "failed"}
  /\ ext.i <= Len(script)
  /\ ext' = [ext EXCEPT !.st = "sending", !.phase = Phase]
  /\ UNCHANGED <<opts, script, pc, ctx, model, cur, out, loopErr, exitCtx,
                 exitBy, killed, retModel, retErr, rdr, disp, initT, sends,
                 seqT, extLog, killAt, crashed, extUpd, thr, dispLog, views,
                 term, flags, sig, rsz, rel, sd, cnt, steps, szT, prt>>

\* Send: case <-p.ctx.Done(): the call returns and the message is dropped.
ExtSendAbort ==
  /\ Alive
  /\ ext.st = "sending"
  /\ SendDone
  /\ ext' = [i |-> ext.i + 1, st |-> "idle", phase |-> "none"]
  /\ extLog' = Append(extLog, [msg |-> script[ext.i], phase |-> ext.phase,
                               res |-> "dropped"])
  /\ UNCHANGED <<opts, script, pc, ctx, model, cur, out, loopErr, exitCtx,
                 exitBy, killed, retModel, retErr, rdr, disp, initT, sends,
                 seqT, killAt, crashed, extUpd, thr, dispLog, views, term,
                 flags, sig, rsz, rel, sd, cnt, steps, szT, prt>>

\* Kill: p.cancel().
Kill ==
  /\ Alive
  /\ ~killCalled
  /\ killAt' = Phase
  /\ ctx' = TRUE
  /\ UNCHANGED <<opts, script, pc, model, cur, out, loopErr, exitCtx, exitBy,
                 killed, retModel, retErr, rdr, disp, initT, sends, seqT, ext,
                 extLog, crashed, extUpd, thr, dispLog, views, term, flags,
                 sig, rsz, rel, sd, cnt, steps, szT, prt>>

\* ----------------------------------------------------------- Run: the end

\* killed := p.ctx.Err() != nil; a killed run gets ErrProgramKilled, any
\* other run one more p.renderer.write(model.View()).
RunAfterLoop ==
  /\ Alive
  /\ pc = "exited"
  /\ killed' = ctx
  /\ IF ctx
     THEN /\ retErr' = ErrProgramKilled
          /\ UNCHANGED <<rdr, views>>
     ELSE /\ retErr' = loopErr
          /\ rdr' = [rdr EXCEPT !.finalViews = @ + 1, !.finalView = model]
          /\ views' = views + 1
  /\ pc' = "teardown"
  /\ UNCHANGED <<opts, script, ctx, model, cur, out, loopErr, exitCtx, exitBy,
                 retModel, disp, initT, sends, seqT, ext, extLog, killAt,
                 crashed, extUpd, thr, dispLog, term, flags, sig, rsz, rel, sd,
                 cnt, steps, szT, prt>>

\* p.cancel(), then p.cancelReader.Cancel(): with no input there is no
\* cancel reader, and the call on the nil interface panics.
RunTeardown ==
  /\ Alive
  /\ pc = "teardown"
  /\ ctx' = TRUE
  /\ pc' = IF opts.inputNil THEN "panic" ELSE "join"
  /\ UNCHANGED <<opts, script, model, cur, out, loopErr, exitCtx, exitBy,
                 killed, retModel, retErr, rdr, disp, initT, sends, seqT, ext,
                 extLog, killAt, crashed, extUpd, thr, dispLog, views, term,
                 flags, sig, rsz, rel, sd, cnt, steps, szT, prt>>

\* handlers.shutdown(): every registered handler has closed its channel.
HandlersDone ==
  /\ initT \in {"none", "closed"}
  /\ disp.st = "closed"
  /\ sig.st \in {"off", "closed"}
  /\ rsz \in {"off", "closed"}

RunJoin ==
  /\ Alive
  /\ pc = "join"
  /\ HandlersDone
  /\ pc' = "shutdown"
  /\ UNCHANGED <<opts, script, ctx, model, cur, out, loopErr, exitCtx, exitBy,
                 killed, retModel, retErr, rdr, disp, initT, sends, seqT, ext,
                 extLog, killAt, crashed, extUpd, thr, dispLog, views, term,
                 flags, sig, rsz, rel, sd, cnt, steps, szT, prt>>

\* p.shutdown that stops the renderer whatever its argument.
ShutdownAlwaysStop(kill) == [rdr EXCEPT !.down = "stop"]

\* p.shutdown(kill): the renderer is killed or stopped.
Shutdown(kill) == [rdr EXCEPT !.down = IF kill THEN "kill" ELSE "stop"]

\* The registered handlers that have not closed their completion channel.
OpenHandlers ==
  {h \in {"sig", "rsz", "disp", "initT"} :
     \/ h = "sig" /\ sig.st \notin {"off", "closed"}
     \/ h = "rsz" /\ rsz = "listen"
     \/ h = "disp" /\ disp.st \in {"select", "running"}
     \/ h = "initT" /\ initT = "waiting"}

\* A call of p.shutdown is noted, with the handlers still open at that time.
ShutdownNoted == [n |-> sd.n + 1, open |-> sd.open \cup OpenHandlers]

\* p.shutdown(killed); return model, err.
RunShutdown ==
  /\ Alive
  /\ pc = "shutdown"
  /\ rdr' = Shutdown(killed)
  /\ sd' = ShutdownNoted
  /\ term' = RestoreTerminalState(term)
  /\ RunReturn(ModelValue(model), retErr)
  /\ UNCHANGED <<opts, script, model, cur, out, loopErr, exitCtx, exitBy,
                 killed, disp, initT, sends, seqT, ext, extLog, killAt,
                 crashed, extUpd, thr, dispLog, views, flags, sig, rsz, rel,
                 cnt, steps, szT, prt>>

\* A panic on the Run task: with the recover() handler registered,
\* p.shutdown(true) runs and Run returns zero values; without it the panic
\* ends the process.
RunPanic ==
  /\ Alive
  /\ pc = "panic"
  /\ \/ /\ opts.catchPanics
        /\ rdr' = Shutdown(TRUE)
        /\ sd' = ShutdownNoted
        /\ term' = RestoreTerminalState(term)
        /\ RunReturn(NilModel, NoErr)
        /\ UNCHANGED crashed
     \/ /\ ~opts.catchPanics
        /\ crashed' = "panic"
        /\ UNCHANGED <<rdr, sd, term, retModel, retErr, ctx, pc>>
  /\ UNCHANGED <<opts, script, model, cur, out, loopErr, exitCtx, exitBy,
                 killed, disp, initT, sends, seqT, ext, extLog, killAt, extUpd,
                 thr, dispLog, views, flags, sig, rsz, rel, cnt, steps, szT,
                 prt>>

\* ---------------------------------------------------------- specification

Next ==
  \/ RunStart \/ RunInitTerminal \/ RunSetup \/ RunSubscribe
  \/ LoopCtxDone \/ LoopRecvExt \/ LoopRecvCmd \/ LoopRecvSeq
  \/ LoopUpdate \/ LoopSendCmd \/ LoopBatchSend \/ LoopView
  \/ DispCtxDone \/ DispInvoke \/ CmdSendAbort
  \/ InitTaskSend \/ InitTaskCancel
  \/ SeqInvoke \/ SeqSendAbort
  \/ ExtSend \/ ExtSendAbort \/ Kill
  \/ RunAfterLoop \/ RunTeardown \/ RunJoin \/ RunShutdown \/ RunPanic

Spec == Init /\ [][Next]_vars

\* The Go scheduler runs every goroutine that can take a step: each step of
\* Run, of the event loop, of the dispatcher and of a task is taken if it
\* stays possible.  Calling Run, Send and Kill is up to the caller.
Fairness ==
  /\ WF_vars(RunInitTerminal) /\ WF_vars(RunSetup) /\ WF_vars(RunSubscribe)
  /\ WF_vars(LoopCtxDone) /\ WF_vars(LoopRecvExt) /\ WF_vars(LoopRecvCmd)
  /\ WF_vars(LoopRecvSeq) /\ WF_vars(LoopUpdate) /\ WF_vars(LoopSendCmd)
  /\ WF_vars(LoopBatchSend) /\ WF_vars(LoopView)
  /\ WF_vars(DispCtxDone) /\ WF_vars(DispInvoke) /\ WF_vars(CmdSendAbort)
  /\ WF_vars(InitTaskSend) /\ WF_vars(InitTaskCancel)
  /\ WF_vars(SeqInvoke) /\ WF_vars(SeqSendAbort) /\ WF_vars(ExtSendAbort)
  /\ WF_vars(RunAfterLoop) /\ WF_vars(RunTeardown) /\ WF_vars(RunJoin)
  /\ WF_vars(RunShutdown) /\ WF_vars(RunPanic)

FairSpec == Spec /\ Fairness

\* ------------------------------------- control messages, modes, panics

\* Start-up configurations without a signal handler: every combination of
\* the mode options, and every combination of the others.
CtlOpts ==
  [inputNil : {FALSE}, catchPanics : {TRUE}, initCmd : {NilCmd},
   signals : {FALSE}, altScreen : BOOLEAN, mouseCell : BOOLEAN,
   mouseAll : BOOLEAN, outTTY : {FALSE}]
  \cup
  [inputNil : BOOLEAN, catchPanics : BOOLEAN, initCmd : InitCmds,
   signals : {FALSE}, altScreen : {FALSE}, mouseCell : {FALSE},
   mouseAll : {FALSE}, outTTY : BOOLEAN]

\* The caller sends one message: a control message of any kind, an
\* application message, or a message on which Update or View panics.
CtlScripts ==
  {<<m>> : m \in {QuitMsg, "mBatch", "mSeq", "mClear", "mEnterAlt", "mExitAlt",
                  "mMouseCell", "mMouseAll", "mDisableMouse", "mShowCursor",
                  "mHideCursor", "mExec", "mPrint", "mRepaint", "inc", "pan",
                  "vpan"}}

CtlInit ==
  /\ opts \in CtlOpts
  /\ script \in CtlScripts
  /\ InitState

CtlNext ==
  \/ Next
  \/ LoopExec
  \/ ResizeCtxDone

CtlSpec == CtlInit /\ [][CtlNext]_vars

\* ----------------------------- signal watcher, terminal release / restore

\* Start-up configurations with the signal handler.
SigOpts ==
  [inputNil : {FALSE}, catchPanics : {TRUE}, initCmd : {NilCmd},
   signals : {TRUE}, altScreen : BOOLEAN, mouseCell : BOOLEAN,
   mouseAll : {FALSE}, outTTY : {TRUE}]

\* The caller sends one message: Quit, an application message, or a message
\* on which Update panics.
SigScripts == {<<QuitMsg>>, <<"inc">>, <<"pan">>}

SigInit ==
  /\ opts \in SigOpts
  /\ script \in SigScripts
  /\ InitState

SigNext ==
  \/ RunStart \/ RunInitTerminal \/ RunSetup \/ RunSubscribe
  \/ LoopCtxDone \/ LoopRecvExt \/ LoopRecvCmd \/ LoopRecvSig
  \/ LoopUpdate \/ LoopSendCmd \/ LoopView
  \/ DispCtxDone \/ CmdSendAbort
  \/ ExtSend \/ ExtSendAbort \/ Kill
  \/ SigArrive \/ SigRecv \/ SigCheck \/ SigCtxDone
  \/ ResizeCtxDone
  \/ ReleaseBegin \/ ReleaseEnd \/ RestoreBegin \/ RestoreEnd
  \/ RunAfterLoop \/ RunTeardown \/ RunJoin \/ RunShutdown \/ RunPanic

SigSpec == SigInit /\ [][SigNext]_vars

\* Every step of Run, of the loop, of the dispatcher, of a Send task and of
\* the watchers is taken if it stays possible.  Signals arrive, and callers
\* call Run, Send, Kill, ReleaseTerminal and RestoreTerminal, as they please.
SigFairness ==
  /\ WF_vars(RunInitTerminal) /\ WF_vars(RunSetup) /\ WF_vars(RunSubscribe)
  /\ WF_vars(LoopCtxDone) /\ WF_vars(LoopRecvExt) /\ WF_vars(LoopRecvCmd)
  /\ WF_vars(LoopRecvSig) /\ WF_vars(LoopUpdate) /\ WF_vars(LoopSendCmd)
  /\ WF_vars(LoopView) /\ WF_vars(DispCtxDone) /\ WF_vars(CmdSendAbort)
  /\ WF_vars(ExtSendAbort)
  /\ WF_vars(SigRecv) /\ WF_vars(SigCheck) /\ WF_vars(SigCtxDone)
  /\ WF_vars(ResizeCtxDone)
  /\ WF_vars(RunAfterLoop) /\ WF_vars(RunTeardown) /\ WF_vars(RunJoin)
  /\ WF_vars(RunShutdown) /\ WF_vars(RunPanic)

FairSigSpec == SigSpec /\ SigFairness

\* ------------------------- infrastructure errors, nil messages, Println

\* Start-up configurations with or without an input and with an output that
\* is or is not a terminal.
IoOpts ==
  [inputNil : BOOLEAN, catchPanics : BOOLEAN, initCmd : {NilCmd},
   signals : {FALSE}, altScreen : {FALSE}, mouseCell : {FALSE},
   mouseAll : {FALSE}, outTTY : BOOLEAN]

\* The caller sends an application message, a message answered with a
\* command that returns the nil Msg, or Quit.
IoScripts == {<<"inc">>, <<"nilc">>, <<QuitMsg>>, <<"inc", QuitMsg>>}

IoInit ==
  /\ opts \in IoOpts
  /\ script \in IoScripts
  /\ InitState

IoNext ==
  \/ RunStart \/ RunInitTerminal \/ RunSetup \/ RunSubscribe
  \/ LoopCtxDone \/ LoopRecvExt \/ LoopRecvCmd
  \/ LoopRecvErr \/ LoopRecvSize \/ LoopRecvPrint
  \/ LoopUpdate \/ LoopSendCmd \/ LoopView
  \/ DispCtxDone \/ DispInvoke \/ CmdSendAbort
  \/ ExtSend \/ ExtSendAbort \/ Kill
  \/ SizeGet \/ SizeCtxDone \/ ResizeCtxDone
  \/ PrintlnCall
  \/ RunAfterLoop \/ RunTeardown \/ RunJoin \/ RunShutdown \/ RunPanic

IoSpec == IoInit /\ [][IoNext]_vars

\* Every step of Run, of the loop, of the dispatcher, of a Send task and of
\* the watchers is taken if it stays possible.  Callers call Run, Send, Kill
\* and Println as they please.
IoFairness ==
  /\ WF_vars(RunInitTerminal) /\ WF_vars(RunSetup) /\ WF_vars(RunSubscribe)
  /\ WF_vars(LoopCtxDone) /\ WF_vars(LoopRecvExt) /\ WF_vars(LoopRecvCmd)
  /\ WF_vars(LoopRecvErr) /\ WF_vars(LoopRecvSize) /\ WF_vars(LoopRecvPrint)
  /\ WF_vars(LoopUpdate) /\ WF_vars(LoopSendCmd) /\ WF_vars(LoopView)
  /\ WF_vars(DispCtxDone) /\ WF_vars(DispInvoke) /\ WF_vars(CmdSendAbort)
  /\ WF_vars(ExtSendAbort)
  /\ WF_vars(SizeGet) /\ WF_vars(SizeCtxDone) /\ WF_vars(ResizeCtxDone)
  /\ WF_vars(RunAfterLoop) /\ WF_vars(RunTeardown) /\ WF_vars(RunJoin)
  /\ WF_vars(RunShutdown) /\ WF_vars(RunPanic)

FairIoSpec == IoSpec /\ IoFairness

\* ------------------------------------------------------------------ C1

\* The caller's ordinary (non-quit) messages the event loop has received.
ExtDelivered ==
  {i \in DOMAIN extLog : extLog[i].res = "delivered" /\ extLog[i].msg # QuitMsg}

\* 1 while the loop holds a message of the caller it has not yet updated on.
ExtInFlight == IF pc = "update" /\ cur.src = "ext" THEN 1 ELSE 0

\* C1: the messages a caller sends one after another through Send reach
\* Update once each and in send order (the k-th Update on a caller message
\* is on the k-th message of the script), Update has been invoked exactly
\* once for every message the loop received from the caller, no Send returns
\* without delivery while the scope is not cancelled, and every Update is
\* invoked on the Model the previous Update returned.
C1_UpdateOncePerMessageInOrder ==
  /\ \A k \in DOMAIN extUpd : extUpd[k] = k /\ script[k] # QuitMsg
  /\ Len(extUpd) = Cardinality(ExtDelivered) - ExtInFlight
  /\ (~ctx => \A i \in DOMAIN extLog : extLog[i].res = "delivered")
  /\ thr.in = thr.prev

\* Four messages of the counting example were updated on, in order, and the
\* count is 3, with the program still running.
C1_Witness ==
  /\ script = CounterScript
  /\ extUpd = <<1, 2, 3, 4>>
  /\ thr.out = 3
  /\ ~ctx

\* ------------------------------------------------------------------ C2

\* C2: once Run has returned the scope is cancelled, so a Send called after
\* that can return at once (its Done case is ready), every such Send has
\* returned without handing its message over, and no such message is passed
\* to Update.
C2_SendAfterReturnIsNoOp ==
  Alive =>
    /\ pc = "done" => ctx
    /\ (ext.st = "sending" /\ ext.phase = "returned") => ENABLED ExtSendAbort
    /\ \A i \in DOMAIN extLog :
         extLog[i].phase = "returned" => extLog[i].res = "dropped"
    /\ \A k \in DOMAIN extUpd :
         extUpd[k] \in DOMAIN extLog => extLog[extUpd[k]].phase # "returned"

\* A Send called after Run returned has come back without delivery.
C2_Witness ==
  \E i \in DOMAIN extLog :
    extLog[i].phase = "returned" /\ extLog[i].res = "dropped"

\* ------------------------------------------------------------------ C3

\* Kill was called after Run had started and before Run returned.
KilledWhileRunning == killAt \in {"starting", "running"}

\* C3: if Kill is called after Run has started and before it returns, and
\* the process does not die of a fault, Run eventually returns.
C3_KillThenRunReturns ==
  (KilledWhileRunning /\ ~opts.inputNil) ~> (pc = "done" \/ ~Alive)

\* ------------------------------------------------------------------ C4

\* C4: a run that reached the event loop and has returned reports
\* ErrProgramKilled exactly if the final render was skipped: if the scope
\* was found cancelled after the loop, View was not invoked after the loop,
\* the renderer was torn down with kill and the error is ErrProgramKilled;
\* otherwise View was invoked exactly once after the loop, the renderer was
\* torn down with stop and the error is not ErrProgramKilled.
C4_KilledIffFinalRenderSkipped ==
  (pc = "done" /\ exitBy # "none") =>
    /\ (retErr = ErrProgramKilled) <=> (rdr.finalViews = 0)
    /\ killed =>
         rdr.finalViews = 0 /\ rdr.down = "kill" /\ retErr = ErrProgramKilled
    /\ ~killed =>
         rdr.finalViews = 1 /\ rdr.down = "stop" /\ retErr # ErrProgramKilled

\* ------------------------------------------------------------------ C5

\* C5: a quit message is never passed to Update, nothing is processed after
\* the loop received it, and a run that ended by a quit message with Kill
\* never called has invoked View exactly once after the loop, on the Model
\* of the last Update, and has returned that Model with a nil error; the
\* counting example returns 3.
C5_QuitReturnsLastModel ==
  /\ pc = "update" => cur.msg # QuitMsg
  /\ exitBy = "quit" => pc \notin {"loop", "update", "sendcmd", "batch", "view"}
  /\ (pc = "done" /\ exitBy = "quit" /\ ~killCalled) =>
       /\ retErr = NoErr
       /\ retModel = ModelValue(thr.out)
       /\ rdr.finalViews = 1
       /\ rdr.finalView = thr.out
       /\ script = CounterScript => retModel = ModelValue(3)

\* ------------------------------------------------------------------ C6

\* The caller is inside a Quit it called while the program was not running.
QuitCalledNotRunning ==
  /\ ext.st = "sending"
  /\ script[ext.i] = QuitMsg
  /\ ext.phase \in {"unstarted", "returned"}

\* C6: a Quit called before Run has started or after Run has returned can
\* return at once, and every such call has returned without handing its
\* quit message to an event loop.
C6_QuitWhenNotRunningIsNoOp ==
  Alive =>
    /\ QuitCalledNotRunning => ENABLED ExtSendAbort
    /\ \A i \in DOMAIN extLog :
         (extLog[i].msg = QuitMsg /\ extLog[i].phase \in {"unstarted", "returned"})
           => extLog[i].res = "dropped"

\* ------------------------------------------------------------------ C7

\* The Send was called before Run had started its event loop.
PreLoop(ph) == ph \in {"unstarted", "starting"}

\* How often the loop took the caller's i-th message on to Update.
TimesUpdated(i) ==
  Cardinality({k \in DOMAIN extUpd : extUpd[k] = i})
    + (IF pc = "update" /\ cur.src = "ext" /\ cur.idx = i THEN 1 ELSE 0)

\* C7: a Send called before the event loop started cannot return while the
\* scope is not cancelled and the loop has not received its message; it has
\* returned only by delivery or after cancellation; once the loop reads the
\* bus it can receive the waiting message; every call has exactly one
\* outcome, and a delivered ordinary message went to Update exactly once.
C7_SendBeforeLoopBlocksAndDelivers ==
  /\ Len(extLog) = ext.i - 1
  /\ \A i \in DOMAIN extLog :
       PreLoop(extLog[i].phase) =>
         /\ extLog[i].res = "delivered" \/ ctx
         /\ (extLog[i].res = "delivered" /\ extLog[i].msg # QuitMsg)
              => TimesUpdated(i) = 1
         /\ extLog[i].res = "dropped" => TimesUpdated(i) = 0
  /\ (Alive /\ ext.st = "sending" /\ PreLoop(ext.phase) /\ ~ctx) =>
       /\ ~ENABLED ExtSendAbort
       /\ pc = "loop" => ENABLED LoopRecvExt

\* A message sent before the loop started was received and updated on.
C7_Witness ==
  \E i \in DOMAIN extLog :
    /\ extLog[i].phase = "unstarted"
    /\ extLog[i].res = "delivered"
    /\ \E k \in DOMAIN extUpd : extUpd[k] = i

\* ------------------------------------------------------------------ C8

\* The results of the first n commands of the list l, in list order.
ResultsOfPrefix(l, n) == [i \in 1..n |-> Result(l[i])]

\* C8: for every sequence task, the results the loop has received from it
\* are those of a prefix of its list in list order; while the scope is not
\* cancelled the task has invoked exactly one command more than the loop
\* has received while it waits in Send, and none more otherwise, and a
\* finished task has delivered every result; the loop, meanwhile, can take
\* a message the caller is waiting to send.
C8_SequenceInListOrder ==
  /\ \A t \in DOMAIN seqT :
       /\ seqT[t].inv <= Len(seqT[t].list)
       /\ Len(seqT[t].got) <= seqT[t].inv
       /\ seqT[t].got = ResultsOfPrefix(seqT[t].list, Len(seqT[t].got))
       /\ ~ctx =>
            /\ seqT[t].st = "send" => seqT[t].inv = Len(seqT[t].got) + 1
            /\ seqT[t].st \in {"run", "done"} => seqT[t].inv = Len(seqT[t].got)
            /\ seqT[t].st = "done" => Len(seqT[t].got) = Len(seqT[t].list)
  /\ (Alive /\ ~ctx /\ pc = "loop" /\ ext.st = "sending"
        /\ \E t \in DOMAIN seqT : seqT[t].st # "done")
       => ENABLED LoopRecvExt

\* A sequence of two commands has delivered both results in list order, and
\* the loop has meanwhile updated on the caller's next message.
C8_Witness ==
  /\ ~ctx
  /\ extUpd = <<1, 2>>
  /\ \E t \in DOMAIN seqT :
       /\ seqT[t].st = "done"
       /\ seqT[t].list = <<"cA", "cB">>
       /\ seqT[t].got = <<"ra", "rb">>

\* ------------------------------------------------------------------ C9

\* C9: while the event loop hands the commands of a batch to a dispatcher
\* that is still there, the hand-off can always proceed: the loop is never
\* kept waiting for a command of the batch to finish.
C9_LoopNeverWaitsForBatchCommand ==
  (Alive /\ pc = "batch" /\ disp.st # "closed") => ENABLED LoopBatchSend

\* ----------------------------------------------------------------- C10

\* C10: a nil command is never invoked and raises no fault, wherever it
\* appears.
C10_NilCmdIsNoOp ==
  /\ crashed # "nilCmd"
  /\ \A i \in DOMAIN dispLog : dispLog[i] # NilCmd

\* ----------------------------------------------------------------- C11

\* Run is past a successful p.initTerminal().
TerminalInitialised ==
  /\ pc \notin {"idle", "starting"}
  /\ ~(pc = "done" /\ retErr \in {ErrOpenTTY, ErrInitTerminal})

\* C11: p.shutdown never runs twice, and a Run that has returned after the
\* terminal was initialised has run it exactly once.
C11_ShutdownExactlyOnce ==
  /\ sd.n <= 1
  /\ (pc = "done" /\ TerminalInitialised) => sd.n = 1

\* ----------------------------------------------------------------- C12

\* Run has returned the error of a failed p.initTerminal().
InitTerminalFailed == pc = "done" /\ retErr = ErrInitTerminal

\* What Run has not done when it returns the error of p.initTerminal().
NoFurtherSetup ==
  /\ retModel = ModelValue(InitialModel)
  /\ cnt.init = 0 /\ initT = "none"
  /\ views = 0 /\ ~rdr.started
  /\ term = TermPristine
  /\ exitBy = "none" /\ thr.n = 0 /\ disp.st = "off" /\ rsz = "off"
  /\ sd.n = 0
  /\ ctx

\* C12: when p.initTerminal() fails, Run returns that error and the initial
\* model, has invoked neither Init nor View, has not started the renderer,
\* has applied no alt-screen or mouse mode, has not run the event loop, and
\* has cancelled the context, and a signal watcher that was started
\* terminates.
C12_InitTerminalFailure ==
  /\ [](InitTerminalFailed => NoFurtherSetup)
  /\ (InitTerminalFailed /\ sig.st # "off") ~> (sig.st = "closed")

\* The part of C12 about Run itself.
C12_SetupPart == InitTerminalFailed => NoFurtherSetup

\* ----------------------------------------------------------------- C13

\* Update or View of the application has panicked on the loop task.
AppPanicked ==
  \/ \E k \in DOMAIN extUpd : UpdatePanics(script[extUpd[k]])
  \/ ViewPanics(model) /\ (pc \in {"panic", "done"} \/ crashed = "panic")

\* C13: with panic recovery on, a panic of Update or View is recovered: Run
\* returns no error and no model after p.shutdown(true) has killed the
\* renderer and restored the terminal, and the panic does not reach the
\* caller.  With recovery off the panic reaches the caller, Run returns
\* nothing and restores nothing.
C13_PanicRecovery ==
  AppPanicked =>
    /\ opts.catchPanics =>
         /\ crashed # "panic"
         /\ pc = "done" =>
              /\ sd.n = 1
              /\ rdr.down = "kill"
              /\ term = TermPristine
              /\ retErr = NoErr
              /\ retModel = NilModel
    /\ ~opts.catchPanics =>
         /\ pc # "done"
         /\ sd.n = 0
         /\ rdr.down = "no"
         /\ term.raw

\* A View panic was recovered and Run has returned.
C13_Witness ==
  /\ opts.catchPanics /\ ViewPanics(model)
  /\ pc = "done" /\ sd.n = 1 /\ rdr.down = "kill"

\* An Update panic has reached the caller of Run.
C13_WitnessPropagated ==
  /\ ~opts.catchPanics /\ crashed = "panic"
  /\ \E k \in DOMAIN extUpd : UpdatePanics(script[extUpd[k]])

\* ----------------------------------------------------------------- C14

\* ReleaseTerminal and then RestoreTerminal have both returned without error
\* on a program that Run has not yet torn down, and the program changed no
\* terminal mode of its own in between.
ReleasedAndRestored == rel.st = "restored" /\ sd.n = 0

\* C14: after ReleaseTerminal followed by a successful RestoreTerminal
\* exactly one of the two happens: the alt screen is entered again (it was
\* active at release) or one repaint message is sent (it was not); and the
\* terminal modes after RestoreTerminal are the modes before
\* ReleaseTerminal.
C14_ReleaseRestoreRoundTrip ==
  ReleasedAndRestored =>
    /\ rel.before.alt => (rel.after.alt /\ rel.repaints = 0)
    /\ ~rel.before.alt => (~rel.after.alt /\ rel.repaints = 1)
    /\ rel.after = rel.before

\* The part of C14 about the alt screen and the repaint.
C14_AltOrRepaint ==
  ReleasedAndRestored =>
    /\ rel.before.alt => (rel.after.alt /\ rel.repaints = 0)
    /\ ~rel.before.alt => (~rel.after.alt /\ rel.repaints = 1)

\* ----------------------------------------------------------------- C15

\* Run has applied the start-up options and the loop has not started.
StartupApplied == pc = "subscribe"

\* C15: when both mouse options are set only cell motion is enabled; all
\* motion is enabled only when it is set and cell motion is not; when
\* neither is set no mouse mode is enabled.
C15_MouseModePriority ==
  StartupApplied =>
    /\ term.mouseCell = opts.mouseCell
    /\ term.mouseAll = (opts.mouseAll /\ ~opts.mouseCell)
    /\ ~(term.mouseCell /\ term.mouseAll)

\* Both options were set and cell motion alone is on.
C15_Witness ==
  /\ StartupApplied
  /\ opts.mouseCell /\ opts.mouseAll
  /\ term.mouseCell /\ ~term.mouseAll

\* All motion alone was set and is on.
C15_WitnessAllMotion ==
  StartupApplied /\ ~opts.mouseCell /\ opts.mouseAll /\ term.mouseAll

\* ----------------------------------------------------------------- C16

\* The event loop has exited and Run has cancelled the context and waits in
\* handlers.shutdown().
WaitingForHandlers == pc = "join"

\* C16: once the loop has exited and the context is cancelled, every
\* registered handler closes its channel, handlers.shutdown() returns and
\* Run returns, whenever the signal arrives.
C16_HandlersCloseAfterCancel ==
  WaitingForHandlers ~> (OpenHandlers = {} /\ pc = "done")

\* ----------------------------------------------------------------- C17

\* C17: p.shutdown never runs while a registered handler has not closed its
\* channel, on every path that restores the terminal, and every handler
\* closes its channel exactly once.
C17_ShutdownAfterHandlers ==
  /\ sd.open = {}
  /\ cnt.sig <= 1 /\ cnt.rsz <= 1 /\ cnt.disp <= 1 /\ cnt.initT <= 1
  /\ sd.n > 0 =>
       /\ opts.signals => cnt.sig = 1
       /\ rsz # "off" => cnt.rsz = 1
       /\ disp.st # "off" => cnt.disp = 1

\* The part of C17 about the exit through handlers.shutdown().
C17_NormalExitPart ==
  /\ cnt.sig <= 1 /\ cnt.rsz <= 1 /\ cnt.disp <= 1 /\ cnt.initT <= 1
  /\ (pc = "shutdown" \/ (pc = "done" /\ sd.n > 0 /\ retErr # NoErr)) =>
       /\ OpenHandlers = {}
       /\ sd.open = {}

\* ----------------------------------------------------------------- C18

\* The caller's messages of control kinds the loop has received.
CtlDelivered ==
  {i \in DOMAIN extLog :
     extLog[i].res = "delivered" /\ Kind(extLog[i].msg) \in ControlKinds}

\* How often the loop took the caller's i-th message on to Update, counting
\* an exec message whose process is still running.
TimesPassedOn(i) ==
  TimesUpdated(i) + (IF pc = "exec" /\ cur.src = "ext" /\ cur.idx = i THEN 1 ELSE 0)

\* The mode a control message asks for is on the terminal.
EffectVisible(k) ==
  /\ k = "enterAltScreen" => term.alt
  /\ k = "exitAltScreen" => ~term.alt
  /\ k = "enableMouseCellMotion" => term.mouseCell
  /\ k = "enableMouseAllMotion" => term.mouseAll
  /\ k = "disableMouse" => (~term.mouseCell /\ ~term.mouseAll)
  /\ k = "showCursor" => term.cursor
  /\ k = "hideCursor" => ~term.cursor

\* When Update is about to run on a control message the runtime has already
\* acted on it, and the loop reads its next message only after the render
\* that follows the Update: every Update that returned has been rendered.
EffectThenUpdateThenRender ==
  /\ (pc = "update" /\ Kind(cur.msg) \in ControlKinds) =>
       (steps = <<"effect">> /\ EffectVisible(Kind(cur.msg)))
  /\ pc = "loop" => steps = <<>>
  /\ views = (IF rdr.started THEN 1 ELSE 0) + thr.n + rdr.finalViews
               - (IF pc \in {"sendcmd", "view"} THEN 1 ELSE 0)

\* C18: every control message other than quit is, after the runtime acted
\* on it, passed to Update exactly once and then rendered; quit is the only
\* kind Update does not see.
C18_EveryControlKindButQuitUpdated ==
  /\ \A i \in CtlDelivered :
       TimesPassedOn(i) = IF Kind(extLog[i].msg) = "quit" THEN 0 ELSE 1
  /\ EffectThenUpdateThenRender

\* C18 as amended: every control message other than quit and batch is, after
\* the runtime acted on it, passed to Update exactly once and then rendered;
\* quit and batch are the kinds Update does not see.
C18_ControlKindsButQuitAndBatchUpdated ==
  /\ \A i \in CtlDelivered :
       TimesPassedOn(i) =
         IF Kind(extLog[i].msg) \in {"quit", "batch"} THEN 0 ELSE 1
  /\ EffectThenUpdateThenRender

\* An enter-alt-screen message took effect, went through Update and was
\* rendered, and the loop is reading again.
C18_Witness ==
  /\ script = <<"mEnterAlt">> /\ ~opts.altScreen
  /\ extUpd = <<1>> /\ thr.n = 1 /\ views = 2
  /\ term.alt /\ pc = "loop"

\* A batch message was received and the loop is reading again without an
\* Update.
C18_WitnessBatch ==
  /\ script = <<"mBatch">> /\ 1 \in CtlDelivered
  /\ extUpd = <<>> /\ pc = "loop"

\* ----------------------------------------------------------------- C19

\* What the loop has done with the message it holds, without the runtime's
\* own effect of a control message.
StepsOnMessage == SelectSeq(steps, LAMBDA x : x # "effect")

\* C19: the loop task alone runs Update and View, one message at a time: it
\* holds at most one message, and with it does Update, then the hand-off of
\* the returned command to the dispatcher, then View, in this order, and
\* reads the next message only when all three are done; every Update that
\* returned is rendered before the next read, and every Update is invoked
\* on the Model the previous one returned.
C19_UpdateHandOffViewInOrder ==
  /\ pc = "update" => (cur # NoCur /\ StepsOnMessage = <<>>)
  /\ pc = "sendcmd" => (cur # NoCur /\ StepsOnMessage = <<"update">>)
  /\ pc = "view" => (cur # NoCur /\ StepsOnMessage = <<"update", "cmd">>)
  /\ pc \in {"loop", "batch"} => (cur = NoCur /\ steps = <<>>)
  /\ pc \in {"loop", "batch", "update"} =>
       views = (IF rdr.started THEN 1 ELSE 0) + thr.n
  /\ thr.n > 0 => thr.in = thr.prev

\* Two messages have gone through Update, hand-off and View one after the
\* other and the loop is reading again.
C19_Witness ==
  /\ pc = "loop" /\ thr.n = 2 /\ views = 3 /\ Len(extUpd) = 2

\* ----------------------------------------------------------------- C20

\* C20: a signal that arrived while p.ignoreSignals was set puts no quit
\* message on the bus and leaves the watcher listening; a signal that arrived
\* while it was clear is not dropped: the watcher sends one quit message for
\* it, and then returns and closes its channel.
C20_SignalHonoursIgnoreFlag ==
  /\ sig.st = "send" => ~sig.heldIgn
  /\ ~sig.lost
  /\ cnt.sig <= 1

\* The part of C20 that does not depend on when the flag is read: the
\* watcher sends at most one quit message and closes its channel once, right
\* after the send or on cancellation.
C20_OneQuitThenClosed ==
  /\ cnt.sig <= 1
  /\ sig.st = "closed" <=> cnt.sig = 1

\* ----------------------------------------------------------------- C21

\* The loop is handling a message or is at its select.
LoopRunning == pc \in {"loop", "update", "sendcmd", "batch", "exec", "view"}

\* C21: when the loop ends by receiving an error from p.errs nothing more
\* is processed, and a run that ended so, with Kill never called, has
\* invoked View once after the loop on the Model the loop held and has
\* returned that Model with that error.
C21_InfraErrorReturned ==
  /\ exitBy = "err" => (~LoopRunning /\ loopErr = ErrGetSize)
  /\ (pc = "done" /\ exitBy = "err" /\ ~killCalled) =>
       /\ retErr = ErrGetSize
       /\ retModel = ModelValue(model)
       /\ rdr.finalViews = 1
       /\ rdr.finalView = model

\* C21 for a program with an input.
C21_WithInput == ~opts.inputNil => C21_InfraErrorReturned

\* A run with an input ended by the error and returned it.
C21_ReachedWithInput ==
  /\ ~opts.inputNil /\ pc = "done" /\ exitBy = "err" /\ retErr = ErrGetSize
  /\ thr.n = 1

\* ----------------------------------------------------------------- C22

\* What holds of Init, the first View and the init-command task in every
\* state.
InitOnceBeforeViewBeforeUpdate ==
  /\ cnt.init <= 1
  /\ (TerminalInitialised /\ pc # "setup") => cnt.init = 1
  /\ views > 0 => (cnt.init = 1 /\ rdr.started)
  /\ (thr.n > 0 \/ LoopRunning) => views > 0
  /\ initT # "none" => opts.initCmd # NilCmd
  /\ cnt.initT <= 1
  /\ (Alive /\ pc = "subscribe") => ENABLED RunSubscribe
  /\ (Alive /\ initT = "waiting" /\ ctx) =>
       (ENABLED InitTaskCancel /\ ~ENABLED InitTaskSend)

\* C22: in a run whose terminal initialisation succeeded Init is invoked
\* exactly once and not after the first View, the first View comes before
\* any Update, the task of a non-nil initial command hands it over at most
\* once, Run goes on to the loop whether or not the command was accepted,
\* and once the scope is cancelled a waiting task can complete and does not
\* hand its command to the dispatcher.
C22_InitOnceAndInitCmdScheduled ==
  /\ []InitOnceBeforeViewBeforeUpdate
  /\ [][(ctx /\ initT = "waiting") =>
          (initT' = "waiting" \/ (initT' = "closed" /\ disp' = disp))]_vars

\* The loop runs while the initial command is still waiting to be accepted.
C22_Witness ==
  /\ pc = "update" /\ initT = "waiting" /\ opts.initCmd # NilCmd
  /\ cnt.init = 1 /\ views = 1

\* The scope was cancelled first and the task completed without its command
\* having been invoked.
C22_WitnessCancelled ==
  /\ opts.initCmd # NilCmd /\ initT = "closed" /\ ctx
  /\ dispLog = <<>> /\ disp.st \in {"select", "closed"}

\* ----------------------------------------------------------------- C23

\* Run waits in handlers.shutdown() and only a command that the dispatcher
\* started is still executing.
OnlyCommandStillRunning ==
  /\ Alive /\ pc = "join"
  /\ disp.st = "running"
  /\ OpenHandlers = {"disp"}

\* C23: Run's teardown does not wait for a command the dispatcher started:
\* with only such a command still executing handlers.shutdown() returns;
\* and the result of a command that completes after the scope was cancelled
\* is dropped by its Send, which can always return, and never reaches
\* Update.
C23_TeardownDoesNotWaitForCommands ==
  /\ OnlyCommandStillRunning => ENABLED RunJoin
  /\ (Alive /\ ctx /\ sends # EmptyBag) =>
       (ENABLED CmdSendAbort /\ ~ENABLED LoopRecvCmd)

\* The part of C23 about the result of a command that completes late.
C23_LateResultDropped ==
  (Alive /\ ctx /\ sends # EmptyBag) =>
    (ENABLED CmdSendAbort /\ ~ENABLED LoopRecvCmd)

\* ----------------------------------------------------------------- C24

C25_NilResultNotUpdated ==
  pc \in {"update", "sendcmd", "view"} => cur.msg # NilMsg

\* ----------------------------------------------------------------- C26

\* C26: a call of Println or Printf returns, also when the program has
\* terminated or no loop is reading p.msgs.
C26_PrintlnReturns == (prt = "sending") ~> (prt = "returned")

\* ----------------------------------------------------------------- C27

\* A program without an input has received a quit message, Kill was never
\* called, and Run has left the loop and is past its teardown.
NilInputQuitEnded ==
  /\ opts.inputNil /\ exitBy = "quit" /\ ~killCalled
  /\ (pc = "done" \/ crashed = "panic")

\* C27: a program without an input that quits gracefully tears down as any
\* other: it does not panic, p.shutdown runs once after every handler has
\* closed and stops the renderer, and Run returns the final Model and a nil
\* error.
C27_NilInputQuitTearsDown ==
  /\ (opts.inputNil /\ exitBy = "quit") => pc # "panic"
  /\ NilInputQuitEnded =>
       /\ crashed = "no"
       /\ sd.n = 1 /\ sd.open = {}
       /\ rdr.down = "stop"
       /\ retModel = ModelValue(model)
       /\ retErr = NoErr

\* The same for a program with an input, where it holds.
C27_WithInputQuitTearsDown ==
  (~opts.inputNil /\ exitBy = "quit" /\ ~killCalled /\ pc = "done") =>
    /\ sd.n = 1 /\ sd.open = {}
    /\ rdr.down = "stop"
    /\ retModel = ModelValue(model)
    /\ retErr = NoErr

====
